---- MODULE Spec2Model ----
(***************************************************************************)
(* Model of github.com/deepauto-io/transport: the error taxonomy mapper    *)
(* (error_handler.go), the status tracking response writer and the CORS    *)
(* middleware (middleware.go), and the API encode helper (api.go).         *)
(*                                                                         *)
(* Each component has its own specification over the shared variables:     *)
(*   SpecTaxonomy  package init() and the two mapping functions            *)
(*   SpecSRW       StatusResponseWriter                                    *)
(*   SpecCORS      SetCORS around an arbitrary wrapped handler             *)
(*   SpecAPI       API.Respond / Write / Err, HandleHTTPError,             *)
(*                 WriteErrorResponse against a recording response sink    *)
(***************************************************************************)
EXTENDS Integers, Sequences, FiniteSets, TLC

VARIABLES
    httpStatusCodeToError,  \* error_handler.go: the reverse table, status -> code
    ranged,                 \* keys of apiErrorToStatusCode init() has visited
    query,                  \* the last mapping call and what it returned
    srw,                    \* StatusResponseWriter: statusCode, responseBytes
    under,                  \* the ResponseWriter a StatusResponseWriter wraps
    hist,                   \* history of the calls made on the StatusResponseWriter
    cors,                   \* one request through SetCORS
    api,                    \* the *API a call is made on
    call,                   \* the call made on the API / ErrorHandler
    out                     \* the response sink and the outcome of the call

vars == <<httpStatusCodeToError, ranged, query, srw, under, hist, cors, api, call, out>>

(***************************************************************************)
(* net/http status codes used by the package                               *)
(***************************************************************************)
StatusOK == 200
StatusNoContent == 204
StatusBadRequest == 400
StatusUnauthorized == 401
StatusPaymentRequired == 402
StatusForbidden == 403
StatusNotFound == 404
StatusMethodNotAllowed == 405
StatusRequestTimeout == 408
StatusRequestEntityTooLarge == 413
StatusUnprocessableEntity == 422
StatusLocked == 423
StatusUpgradeRequired == 426
StatusTooManyRequests == 429
StatusClientClosedRequest == 499
StatusInternalServerError == 500
StatusNotImplemented == 501
StatusBadGateway == 502
StatusServiceUnavailable == 503

(***************************************************************************)
(* github.com/deepauto-io/errors: the semantic error codes                 *)
(***************************************************************************)
EInternal == "internal error"
ENotImplemented == "not implemented"
EBadGateway == "bad gateway"
EInvalid == "invalid"
EUnprocessableEntity == "unprocessable entity"
EEmptyValue == "empty value"
EConflict == "conflict"
ENotFound == "not found"
EUnavailable == "unavailable"
EForbidden == "forbidden"
ETooManyRequests == "too many requests"
EUnauthorized == "unauthorized"
EMethodNotAllowed == "method not allowed"
ETooLarge == "request too large"
EPaymentRequired == "payment required"
EUpgradeRequired == "upgrade required"
EStatusLocked == "locked"

\* ctx.Err(): nil, context.Canceled or context.DeadlineExceeded
CtxNone == "nil"
Canceled == "context canceled"
DeadlineExceeded == "context deadline exceeded"
CtxErrs == {CtxNone, Canceled, DeadlineExceeded}

(***************************************************************************)
(* Error taxonomy mapper (error_handler.go)                                *)
(***************************************************************************)
\* var apiErrorToStatusCode = map[string]int{...}
apiErrorToStatusCode ==
    (EInternal            :> StatusInternalServerError) @@
    (ENotImplemented      :> StatusNotImplemented) @@
    (EBadGateway          :> StatusBadGateway) @@
    (EInvalid             :> StatusBadRequest) @@
    (EUnprocessableEntity :> StatusUnprocessableEntity) @@
    (EEmptyValue          :> StatusBadRequest) @@
    (EConflict            :> StatusUnprocessableEntity) @@
    (ENotFound            :> StatusNotFound) @@
    (EUnavailable         :> StatusServiceUnavailable) @@
    (EForbidden           :> StatusForbidden) @@
    (ETooManyRequests     :> StatusTooManyRequests) @@
    (EUnauthorized        :> StatusUnauthorized) @@
    (EMethodNotAllowed    :> StatusMethodNotAllowed) @@
    (ETooLarge            :> StatusRequestEntityTooLarge) @@
    (EPaymentRequired     :> StatusPaymentRequired) @@
    (EUpgradeRequired     :> StatusUpgradeRequired) @@
    (EStatusLocked        :> StatusLocked)

\* the table's entries in the order the source lists them
TableOrder ==
    <<EInternal, ENotImplemented, EBadGateway, EInvalid, EUnprocessableEntity,
      EEmptyValue, EConflict, ENotFound, EUnavailable, EForbidden,
      ETooManyRequests, EUnauthorized, EMethodNotAllowed, ETooLarge,
      EPaymentRequired, EUpgradeRequired, EStatusLocked>>

\* codes a caller may pass: the table's, and two that are not in it
UnknownCodes == {"", "teapot"}
CodeInputs == DOMAIN apiErrorToStatusCode \cup UnknownCodes

\* statuses a caller may pass to StatusCodeToErrorCode
StatusInputs ==
    {apiErrorToStatusCode[k] : k \in DOMAIN apiErrorToStatusCode}
        \cup {StatusOK, StatusRequestTimeout, StatusClientClosedRequest}

\* mutant: the table is consulted before the context
ErrorCodeToStatusCode_TableFirst(ctxErr, code) ==
    IF code \in DOMAIN apiErrorToStatusCode THEN apiErrorToStatusCode[code]
    ELSE IF ctxErr = DeadlineExceeded THEN StatusRequestTimeout
    ELSE IF ctxErr = Canceled THEN StatusClientClosedRequest
    ELSE StatusInternalServerError

\* func ErrorCodeToStatusCode(ctx, code) int
ErrorCodeToStatusCode(ctxErr, code) ==
    IF ctxErr = DeadlineExceeded THEN StatusRequestTimeout
    ELSE IF ctxErr = Canceled THEN StatusClientClosedRequest
    ELSE IF code \in DOMAIN apiErrorToStatusCode THEN apiErrorToStatusCode[code]
    ELSE StatusInternalServerError

\* mutant: the ok test is inverted
StatusCodeToErrorCode_NotOk(statusCode) ==
    IF statusCode \notin DOMAIN httpStatusCodeToError
    THEN "" ELSE EInternal

\* func StatusCodeToErrorCode(statusCode int) string
StatusCodeToErrorCode(statusCode) ==
    IF statusCode \in DOMAIN httpStatusCodeToError
    THEN httpStatusCodeToError[statusCode] ELSE EInternal

\* the body of init()'s loop: httpStatusCodeToError[v] = k
InvertEntry(rev, k, v) == (v :> k) @@ rev

\* init() visiting the keys in the order of sequence s
RECURSIVE InvertInOrder(_, _)
InvertInOrder(rev, s) ==
    IF s = <<>> THEN rev
    ELSE InvertInOrder(InvertEntry(rev, Head(s), apiErrorToStatusCode[Head(s)]), Tail(s))

EmptyMap == <<>>
NoQuery == [fn |-> "none"]
InitDone == ranged = DOMAIN apiErrorToStatusCode

\* one iteration of `for k, v := range apiErrorToStatusCode`; Go leaves the
\* iteration order of a map unspecified, so any unvisited key may come next
InitRange ==
    /\ \E k \in DOMAIN apiErrorToStatusCode \ ranged :
          /\ httpStatusCodeToError' =
                 InvertEntry(httpStatusCodeToError, k, apiErrorToStatusCode[k])
          /\ ranged' = ranged \cup {k}
    /\ UNCHANGED <<query, srw, under, hist, cors, api, call, out>>

CallErrorCodeToStatusCode ==
    /\ InitDone
    /\ \E ctxErr \in CtxErrs, code \in CodeInputs :
          query' = [fn |-> "ErrorCodeToStatusCode", ctxErr |-> ctxErr, code |-> code,
                    ret |-> ErrorCodeToStatusCode(ctxErr, code)]
    /\ UNCHANGED <<httpStatusCodeToError, ranged, srw, under, hist, cors, api, call, out>>

CallStatusCodeToErrorCode ==
    /\ InitDone
    /\ \E statusCode \in StatusInputs :
          query' = [fn |-> "StatusCodeToErrorCode", statusCode |-> statusCode,
                    ret |-> StatusCodeToErrorCode(statusCode)]
    /\ UNCHANGED <<httpStatusCodeToError, ranged, srw, under, hist, cors, api, call, out>>

Idle == "idle"

InitTaxonomy ==
    /\ httpStatusCodeToError = EmptyMap
    /\ ranged = {}
    /\ query = NoQuery
    /\ srw = Idle /\ under = Idle /\ hist = Idle
    /\ cors = Idle /\ api = Idle /\ call = Idle /\ out = Idle

NextTaxonomy ==
    \/ InitRange
    \/ CallErrorCodeToStatusCode
    \/ CallStatusCodeToErrorCode

SpecTaxonomy == InitTaxonomy /\ [][NextTaxonomy]_vars


(***************************************************************************)
(* C1. ErrorCodeToStatusCode returns 499 whenever the context's error is   *)
(* Canceled and 408 whenever it is DeadlineExceeded, for every code; only  *)
(* with no context error does it return the table's status for the code,   *)
(* or 500 for a code that is not in the table.                             *)
(***************************************************************************)
C1_ContextErrorOverridesCode ==
    query.fn = "ErrorCodeToStatusCode" =>
        /\ query.ctxErr = Canceled => query.ret = 499
        /\ query.ctxErr = DeadlineExceeded => query.ret = 408
        /\ (query.ctxErr = CtxNone /\ query.code \in DOMAIN apiErrorToStatusCode)
               => query.ret = apiErrorToStatusCode[query.code]
        /\ (query.ctxErr = CtxNone /\ query.code \notin DOMAIN apiErrorToStatusCode)
               => query.ret = 500
        /\ query.ctxErr # CtxNone => query.ret \in {408, 499}

\* a cancelled context with a code whose table status is 404
C1_Witness ==
    /\ query.fn = "ErrorCodeToStatusCode"
    /\ query.ctxErr = Canceled
    /\ query.code = ENotFound
    /\ query.ret = 499

(***************************************************************************)
(* C9. For every code of the table, with no context error,                 *)
(* CodeToStatus(StatusToCode(CodeToStatus(code))) = CodeToStatus(code),    *)
(* whatever order init() built the reverse table in.                       *)
(***************************************************************************)
C9_StatusRoundTrip ==
    InitDone =>
        \A code \in DOMAIN apiErrorToStatusCode :
            ErrorCodeToStatusCode(CtxNone,
                StatusCodeToErrorCode(ErrorCodeToStatusCode(CtxNone, code)))
              = ErrorCodeToStatusCode(CtxNone, code)

\* init() is over and the reverse table sends 400 and 422 back to codes other
\* than EInvalid and EUnprocessableEntity, which map to them too
C9_Witness ==
    /\ InitDone
    /\ StatusCodeToErrorCode(ErrorCodeToStatusCode(CtxNone, EInvalid)) = EEmptyValue
    /\ StatusCodeToErrorCode(ErrorCodeToStatusCode(CtxNone, EUnprocessableEntity)) = EConflict

(***************************************************************************)
(* C10. Each HTTP status appears once in apiErrorToStatusCode, so          *)
(* StatusCodeToErrorCode(status) is the same for every status whatever     *)
(* order init() inverted the entries in: it is what inverting them in the  *)
(* order the source lists them gives.                                      *)
(***************************************************************************)
C10_ReverseTableOrderIndependent ==
    query.fn = "StatusCodeToErrorCode" =>
        LET ref == InvertInOrder(EmptyMap, TableOrder)
        IN  query.ret = IF query.statusCode \in DOMAIN ref
                        THEN ref[query.statusCode] ELSE EInternal

(***************************************************************************)
(* Status tracking response writer (middleware.go)                         *)
(***************************************************************************)
MaxCalls == 3       \* calls made on one StatusResponseWriter
MaxWriteLen == 2    \* bytes passed to one Write

\* statuses a handler passes to WriteHeader; the int is not checked by the wrapper
SRWStatuses == {0, StatusOK, StatusNoContent, StatusNotFound, StatusInternalServerError}

\* func NewStatusResponseWriter(w) *StatusResponseWriter
NewStatusResponseWriter == [statusCode |-> 0, responseBytes |-> 0]

\* mutant: the zero statusCode is returned as it is
Code_NoDefault(w) == w.statusCode

\* func (w *StatusResponseWriter) Code() int
Code(w) == IF w.statusCode = 0 THEN StatusOK ELSE w.statusCode

\* func (w *StatusResponseWriter) ResponseBytes() int
ResponseBytes(w) == w.responseBytes

\* func (w *StatusResponseWriter) WriteHeader(statusCode int): the value is
\* stored before the wrapped writer sees it, whatever that writer then does
SRW_WriteHeader ==
    /\ hist.calls < MaxCalls
    /\ \E statusCode \in SRWStatuses :
          /\ srw' = [srw EXCEPT !.statusCode = statusCode]
          /\ under' = [under EXCEPT !.events = Append(@, <<"WriteHeader", statusCode>>)]
          /\ hist' = [hist EXCEPT !.calls = @ + 1, !.whCalled = TRUE,
                                  !.lastWH = statusCode]
    /\ UNCHANGED <<httpStatusCodeToError, ranged, query, cors, api, call, out>>

\* func (w *StatusResponseWriter) Write(b []byte) (int, error): the wrapped
\* writer takes n of the len bytes and fails when n < len
SRW_Write ==
    /\ hist.calls < MaxCalls
    /\ \E len \in 0..MaxWriteLen : \E n \in 0..len :
          /\ under' = [under EXCEPT !.events = Append(@, <<"Write", len, n>>)]
          /\ srw' = [srw EXCEPT !.responseBytes = @ + n]
          /\ hist' = [hist EXCEPT !.calls = @ + 1, !.written = @ + n]
    /\ UNCHANGED <<httpStatusCodeToError, ranged, query, cors, api, call, out>>

\* func (w *StatusResponseWriter) Flush(): forwarded to an http.Flusher only
SRW_Flush ==
    /\ hist.calls < MaxCalls
    /\ under' = IF under.flusher
                THEN [under EXCEPT !.events = Append(@, <<"Flush">>)]
                ELSE under
    /\ hist' = [hist EXCEPT !.calls = @ + 1]
    /\ UNCHANGED <<httpStatusCodeToError, ranged, query, srw, cors, api, call, out>>

InitSRW ==
    /\ srw = NewStatusResponseWriter
    /\ under \in {[events |-> <<>>, flusher |-> f] : f \in BOOLEAN}
    /\ hist = [calls |-> 0, whCalled |-> FALSE, lastWH |-> 0, written |-> 0]
    /\ httpStatusCodeToError = EmptyMap /\ ranged = {} /\ query = NoQuery
    /\ cors = Idle /\ api = Idle /\ call = Idle /\ out = Idle

NextSRW ==
    \/ SRW_WriteHeader
    \/ SRW_Write
    \/ SRW_Flush

SpecSRW == InitSRW /\ [][NextSRW]_vars

(***************************************************************************)
(* C3 as stated. After any sequence of WriteHeader, Write and Flush calls, *)
(* Code() returns 200 when WriteHeader was never called, and exactly the   *)
(* last value passed to WriteHeader otherwise.                             *)
(***************************************************************************)
C3_CodeIsLastWriteHeader ==
    Code(srw) = IF hist.whCalled THEN hist.lastWH ELSE 200

(***************************************************************************)
(* C3 amended. Code() returns 200 when WriteHeader was never called or the *)
(* last value passed to it was 0, and exactly the last value passed to     *)
(* WriteHeader otherwise.                                                  *)
(***************************************************************************)
C3_CodeIsLastNonZeroWriteHeader ==
    Code(srw) = IF hist.whCalled /\ hist.lastWH # 0 THEN hist.lastWH ELSE 200

\* WriteHeader was called twice with different values, then Write: Code() is the second
C3_Witness ==
    /\ Len(under.events) = 3
    /\ under.events[1] = <<"WriteHeader", StatusInternalServerError>>
    /\ under.events[2] = <<"WriteHeader", StatusNotFound>>
    /\ under.events[3][1] = "Write"
    /\ Code(srw) = StatusNotFound


(***************************************************************************)
(* CORS middleware (middleware.go): one request through SetCORS(next)      *)
(***************************************************************************)
MaxHandlerCalls == 2    \* calls the wrapped handler makes on the response

MethodOptions == "OPTIONS"
Methods == {"GET", "POST", "DELETE", MethodOptions}
Origins == {"", "https://a.example", "https://b.example"}

AllowOrigin == "Access-Control-Allow-Origin"
AllowMethods == "Access-Control-Allow-Methods"
AllowHeaders == "Access-Control-Allow-Headers"
AllowedMethodsValue == "POST, GET, OPTIONS, PUT, DELETE, PATCH"
AllowedHeadersValue ==
    "Accept, Content-Type, Content-Length, Accept-Encoding, Authorization, User-Agent"

\* w.Header().Set(name, value) on the response c, recorded in its events
HeaderSet(c, name, value) ==
    [c EXCEPT !.header = (name :> value) @@ @,
              !.events = Append(@, <<"Header.Set", name, value>>)]

\* w.WriteHeader(status) on the response c
SinkWriteHeader(c, status) ==
    [c EXCEPT !.events = Append(@, <<"WriteHeader", status>>)]

\* next.ServeHTTP(w, r): control passes to the wrapped handler
ServeNext(c) ==
    [c EXCEPT !.events = Append(@, <<"next.ServeHTTP">>),
              !.nextCalls = @ + 1, !.pc = "next"]

\* a request as it reaches the middleware: nothing set or written yet
NewRequest(method, origin) ==
    [pc |-> "fn", method |-> method, origin |-> origin, header |-> EmptyMap,
     events |-> <<>>, nextCalls |-> 0, handlerCalls |-> 0]

\* mutant: the pre-flight branch does not return
SetCORS_NoReturn(c) ==
    LET c1 == IF c.origin # "" THEN HeaderSet(c, AllowOrigin, c.origin) ELSE c
    IN  IF c.method = MethodOptions
        THEN ServeNext(SinkWriteHeader(
                 HeaderSet(HeaderSet(c1, AllowMethods, AllowedMethodsValue),
                           AllowHeaders, AllowedHeadersValue),
                 StatusNoContent))
        ELSE ServeNext(c1)

\* func SetCORS(next http.Handler) http.Handler: the body of fn, up to its
\* return or to the call of next.ServeHTTP
SetCORS(c) ==
    LET c1 == IF c.origin # "" THEN HeaderSet(c, AllowOrigin, c.origin) ELSE c
    IN  IF c.method = MethodOptions
        THEN [SinkWriteHeader(
                 HeaderSet(HeaderSet(c1, AllowMethods, AllowedMethodsValue),
                           AllowHeaders, AllowedHeadersValue),
                 StatusNoContent) EXCEPT !.pc = "done"]
        ELSE ServeNext(c1)

\* the server hands a request to the handler SetCORS returned
CORS_ServeHTTP ==
    /\ cors.pc \in {"idle", "done"}
    /\ \E method \in Methods, origin \in Origins :
          cors' = SetCORS(NewRequest(method, origin))
    /\ UNCHANGED <<httpStatusCodeToError, ranged, query, srw, under, hist, api, call, out>>

\* the wrapped handler sets a response header (it may set the CORS one too)
Handler_HeaderSet ==
    /\ cors.pc = "next" /\ cors.handlerCalls < MaxHandlerCalls
    /\ \E h \in {<<AllowOrigin, "*">>, <<"Content-Type", "text/plain">>} :
          cors' = [HeaderSet(cors, h[1], h[2]) EXCEPT !.handlerCalls = @ + 1]
    /\ UNCHANGED <<httpStatusCodeToError, ranged, query, srw, under, hist, api, call, out>>

\* the wrapped handler writes a status
Handler_WriteHeader ==
    /\ cors.pc = "next" /\ cors.handlerCalls < MaxHandlerCalls
    /\ \E status \in {StatusOK, StatusNoContent, StatusNotFound} :
          cors' = [SinkWriteHeader(cors, status) EXCEPT !.handlerCalls = @ + 1]
    /\ UNCHANGED <<httpStatusCodeToError, ranged, query, srw, under, hist, api, call, out>>

\* the wrapped handler writes body bytes
Handler_Write ==
    /\ cors.pc = "next" /\ cors.handlerCalls < MaxHandlerCalls
    /\ cors' = [cors EXCEPT !.events = Append(@, <<"Write", "body">>),
                            !.handlerCalls = @ + 1]
    /\ UNCHANGED <<httpStatusCodeToError, ranged, query, srw, under, hist, api, call, out>>

\* the wrapped handler returns, and fn returns after it
Handler_Return ==
    /\ cors.pc = "next"
    /\ cors' = [cors EXCEPT !.pc = "done"]
    /\ UNCHANGED <<httpStatusCodeToError, ranged, query, srw, under, hist, api, call, out>>

InitCORS ==
    /\ cors = [pc |-> "idle"]
    /\ httpStatusCodeToError = EmptyMap /\ ranged = {} /\ query = NoQuery
    /\ srw = Idle /\ under = Idle /\ hist = Idle
    /\ api = Idle /\ call = Idle /\ out = Idle

NextCORS ==
    \/ CORS_ServeHTTP
    \/ Handler_HeaderSet
    \/ Handler_WriteHeader
    \/ Handler_Write
    \/ Handler_Return

SpecCORS == InitCORS /\ [][NextCORS]_vars

\* the WriteHeader events of a response, in order
RECURSIVE WriteHeaders(_)
WriteHeaders(events) ==
    IF events = <<>> THEN <<>>
    ELSE IF Head(events)[1] = "WriteHeader"
         THEN <<Head(events)[2]>> \o WriteHeaders(Tail(events))
         ELSE WriteHeaders(Tail(events))

(***************************************************************************)
(* C8. SetCORS on an OPTIONS request with an Origin header responds 204    *)
(* with Access-Control-Allow-Origin, -Methods and -Headers set and never   *)
(* invokes the wrapped handler; on a non-OPTIONS request with Origin set   *)
(* it invokes the wrapped handler exactly once, having set                 *)
(* Access-Control-Allow-Origin to the request's Origin.                    *)
(***************************************************************************)
C8_PreflightStopsOthersForwardOnce ==
    /\ (cors.pc # "idle" /\ cors.method = MethodOptions /\ cors.origin # "") =>
          /\ cors.pc = "done"
          /\ cors.nextCalls = 0
          /\ WriteHeaders(cors.events) = <<204>>
          /\ {AllowOrigin, AllowMethods, AllowHeaders} \subseteq DOMAIN cors.header
          /\ cors.header[AllowOrigin] = cors.origin
          /\ cors.header[AllowMethods] = AllowedMethodsValue
          /\ cors.header[AllowHeaders] = AllowedHeadersValue
    /\ (cors.pc # "idle" /\ cors.method # MethodOptions /\ cors.origin # "") =>
          /\ cors.nextCalls = 1
          /\ cors.events[1] = <<"Header.Set", AllowOrigin, cors.origin>>
          /\ cors.events[2] = <<"next.ServeHTTP">>

\* a pre-flight that was answered, after an earlier request was forwarded
C8_WitnessPreflight ==
    /\ cors.pc = "done" /\ cors.method = MethodOptions /\ cors.origin = "https://a.example"
    /\ cors.nextCalls = 0 /\ WriteHeaders(cors.events) = <<204>>

\* a POST with an Origin whose handler has run and returned
C8_Witness ==
    /\ cors.pc = "done" /\ cors.method = "POST" /\ cors.origin = "https://b.example"
    /\ cors.nextCalls = 1 /\ cors.handlerCalls = 2
    /\ AllowOrigin \in DOMAIN cors.header


(***************************************************************************)
(* API encode helper (api.go) and error response writer (error_handler.go) *)
(* against a response sink that records what it is asked to do.            *)
(***************************************************************************)
StackLimit == 4     \* frames of Respond/Err the goroutine stack holds

PlatformErrorCodeHeader == "X-Platform-Error-Code"
JSONContentType == "application/json; charset=utf-8"

NoFault == "none"
NilLogger == "panic: nil logger"            \* a method called on the nil a.logger
StackOverflow == "fatal: stack overflow"    \* unbounded Respond -> Err -> Respond

\* errors: nil, an *errors.Error (code and message), or any other error (text)
NilErr == [type |-> "nil"]
AppError(code, msg) == [type |-> "*errors.Error", code |-> code, msg |-> msg]
PlainError(msg) == [type |-> "error", msg |-> msg]
MarshalError == PlainError("json: unsupported type: chan int")

ErrorInputs ==
    {NilErr, AppError(ENotFound, "no such bucket"), AppError(EInvalid, "bad name"),
     PlainError(""), PlainError("dial tcp 10.0.0.7:5432: connection refused"),
     PlainError("pq: password authentication failed for user admin")}

\* errors.ErrorCode(err): the code of an *errors.Error, EInternal for any other
ErrorCode(err) == IF err.type = "*errors.Error" THEN err.code ELSE EInternal

\* err.Error()
ErrorText(err) == err.msg

\* values handed to Respond: an ErrBody, some other marshalable value, and a
\* value encoding/json cannot marshal
ErrBody(code, msg) == [type |-> "ErrBody", Code |-> code, Msg |-> msg]
ObjValue == [type |-> "obj", id |-> "bucket-1"]
ChanValue == [type |-> "chan"]
ValueInputs == {ObjValue, ChanValue, ErrBody(EConflict, "name taken")}

\* the JSON object of a value, by its json tags (ErrBody: "code", "message")
JSONObject(v) ==
    IF v.type = "ErrBody" THEN [code |-> v.Code, message |-> v.Msg] ELSE [id |-> v.id]

\* json.Marshal(v) / json.MarshalIndent(v, "", "\t")
Marshal(v) ==
    IF v.type = "chan" THEN [ok |-> FALSE, err |-> MarshalError]
    ELSE [ok |-> TRUE, b |-> [kind |-> "json", indent |-> FALSE, val |-> JSONObject(v)]]
MarshalIndent(v) ==
    IF v.type = "chan" THEN [ok |-> FALSE, err |-> MarshalError]
    ELSE [ok |-> TRUE, b |-> [kind |-> "json", indent |-> TRUE, val |-> JSONObject(v)]]

\* the response sink of one request: its headers, the calls made on it (and
\* the marshal and log calls between them) in order, and the write-closers
\* made for it. Its failAt-th Write and every later one fail (0: none fails).
NewSink(failAt) ==
    [header |-> EmptyMap, events |-> <<>>, writes |-> 0, failAt |-> failAt,
     wcs |-> <<>>, fault |-> NoFault]
FailAts == 0..3

Record(w, event) == [w EXCEPT !.events = Append(@, event)]

\* w.Write(b) on the sink: [w, err]
SinkWrite(w, b) ==
    LET ok == w.failAt = 0 \/ w.writes + 1 < w.failAt
    IN  [w |-> [w EXCEPT !.writes = @ + 1, !.events = Append(@, <<"Write", b, ok>>)],
         err |-> ~ok]

\* a method of the logger is called: a nil logger panics
Log(logger, w, msg) ==
    IF logger THEN Record(w, <<"Log", msg>>) ELSE [w EXCEPT !.fault = NilLogger]

\* noopCloser{Writer: w} / gzip.NewWriter(w): a new write-closer, the last of w.wcs
NewWriteCloser(w, kind) ==
    [w EXCEPT !.wcs = Append(@, [kind |-> kind, wroteHeader |-> FALSE, closed |-> FALSE,
                                 err |-> FALSE, buf |-> <<>>, closes |-> <<>>])]

\* wc.Write(b): noopCloser writes through; gzip.Writer writes its header on
\* the first Write and hands b to the compressor
WCWrite(w, wc, b) ==
    LET z == w.wcs[wc]
    IN  IF z.kind = "noop" THEN SinkWrite(w, b)
        ELSE IF z.err THEN [w |-> w, err |-> TRUE]
        ELSE LET h == IF z.wroteHeader THEN [w |-> w, err |-> FALSE]
                      ELSE SinkWrite(w, [kind |-> "gzip.header"])
             IN  [w |-> [h.w EXCEPT !.wcs[wc].wroteHeader = TRUE,
                                    !.wcs[wc].err = h.err,
                                    !.wcs[wc].buf = IF h.err THEN @ ELSE Append(@, b)],
                  err |-> h.err]

\* gzip.Writer.Close() once its err and closed flags let it run: header if
\* none was written, the compressed data, the trailer
GzipFlush(w, wc) ==
    LET h  == IF w.wcs[wc].wroteHeader THEN [w |-> w, err |-> FALSE]
              ELSE SinkWrite(w, [kind |-> "gzip.header"])
        d  == IF h.err THEN h
              ELSE SinkWrite(h.w, [kind |-> "gzip.data", of |-> w.wcs[wc].buf])
        t  == IF d.err THEN d ELSE SinkWrite(d.w, [kind |-> "gzip.trailer"])
    IN  [w |-> [t.w EXCEPT !.wcs[wc].wroteHeader = TRUE, !.wcs[wc].closed = TRUE,
                           !.wcs[wc].err = t.err],
         err |-> t.err]

\* wc.Close(): [w, err], the call and its result noted in the closer's closes
WCClose(w, wc) ==
    LET z == w.wcs[wc]
        r == IF z.kind = "noop" THEN [w |-> w, err |-> FALSE]
             ELSE IF z.err THEN [w |-> w, err |-> TRUE]
             ELSE IF z.closed THEN [w |-> w, err |-> FALSE]
             ELSE GzipFlush(w, wc)
    IN  [w |-> [r.w EXCEPT !.wcs[wc].closes = Append(@, ~r.err)], err |-> r.err]

\* mutant: the body is written before the status
write_BodyFirst(a, w, wc, status, b) ==
    LET r1 == WCWrite(w, wc, b)
        w1 == SinkWriteHeader(r1.w, status)
        w2 == IF r1.err THEN Log(a.logger, w1, "failed to write to response writer: ")
              ELSE w1
    IN  IF w2.fault # NoFault THEN w2
        ELSE LET r2 == WCClose(w2, wc)
             IN  IF r2.err THEN Log(a.logger, r2.w, "failed to close response writer")
                 ELSE r2.w

\* func (a *API) write(w, wc, status, b)
write(a, w, wc, status, b) ==
    LET w1 == SinkWriteHeader(w, status)
        r1 == WCWrite(w1, wc, b)
        w2 == IF r1.err THEN Log(a.logger, r1.w, "failed to write to response writer: ")
              ELSE r1.w
    IN  IF w2.fault # NoFault THEN w2
        ELSE LET r2 == WCClose(w2, wc)
             IN  IF r2.err THEN Log(a.logger, r2.w, "failed to close response writer")
                 ELSE r2.w

\* a deferred writer.Close(): it runs when the function returns or panics,
\* not when the process dies of stack exhaustion
DeferredClose(w, wc) == IF w.fault = StackOverflow THEN w ELSE WCClose(w, wc).w


(***************************************************************************)
(* NewAPI and its options                                                  *)
(***************************************************************************)
\* what a formatter given to WithErrFn may do: fail, return a value that is
\* not an ErrBody, or return a value that cannot be marshaled
CustomErrFns == {"fails", "value", "unmarshalable"}

WithLog == [opt |-> "WithLog"]
WithErrFn(fn) == [opt |-> "WithErrFn", fn |-> fn]
WithPrettyJSON(b) == [opt |-> "WithPrettyJSON", b |-> b]
WithEncodeGZIP == [opt |-> "WithEncodeGZIP"]

\* o(&api) for an option o
ApplyOpt(a, o) ==
    CASE o.opt = "WithLog" -> [a EXCEPT !.logger = TRUE]
      [] o.opt = "WithErrFn" -> [a EXCEPT !.errFn = o.fn]
      [] o.opt = "WithPrettyJSON" -> [a EXCEPT !.prettyJSON = o.b]
      [] o.opt = "WithEncodeGZIP" -> [a EXCEPT !.encodeGZIP = TRUE]

RECURSIVE ApplyOpts(_, _)
ApplyOpts(a, opts) ==
    IF opts = <<>> THEN a ELSE ApplyOpts(ApplyOpt(a, Head(opts)), Tail(opts))

\* func NewAPI(opts ...APIOptFn) *API: the literal sets prettyJSON and the two
\* formatters; logger (FALSE: nil) and encodeGZIP keep their zero values
NewAPI(opts) ==
    ApplyOpts([logger |-> FALSE, prettyJSON |-> TRUE, encodeGZIP |-> FALSE,
               errFn |-> "default", opts |-> opts], opts)

OptionLists ==
    {l1 \o l2 \o l3 \o l4 :
        l1 \in {<<>>, <<WithLog>>},
        l2 \in {<<>>} \cup {<<WithErrFn(fn)>> : fn \in CustomErrFns},
        l3 \in {<<>>, <<WithPrettyJSON(FALSE)>>},
        l4 \in {<<>>, <<WithEncodeGZIP>>}}

\* the errFn NewAPI sets
defaultErrFn(ctxErr, err) ==
    LET msg  == IF ErrorText(err) = "" THEN "an internal error has occurred"
                ELSE ErrorText(err)
        code == ErrorCode(err)
    IN  [v |-> ErrBody(code, msg), status |-> ErrorCodeToStatusCode(ctxErr, code),
         err |-> FALSE]

\* a.errFn(r.Context(), err): (value, status, error)
errFn(a, ctxErr, err) ==
    CASE a.errFn = "default" -> defaultErrFn(ctxErr, err)
      [] a.errFn = "fails" -> [v |-> NilErr, status |-> 0, err |-> TRUE]
      [] a.errFn = "value" ->
             [v |-> ObjValue, status |-> StatusBadRequest, err |-> FALSE]
      [] a.errFn = "unmarshalable" ->
             [v |-> ChanValue, status |-> StatusInternalServerError, err |-> FALSE]

(***************************************************************************)
(* Respond, Err, Write; depth counts the frames of Respond and Err         *)
(***************************************************************************)
RECURSIVE Respond(_, _, _, _, _, _)
RECURSIVE Err(_, _, _, _, _)

\* func (a *API) Respond(w, r, status, v)
Respond(a, w, ctxErr, status, v, depth) ==
    IF depth > StackLimit THEN [w EXCEPT !.fault = StackOverflow]
    ELSE IF status = StatusNoContent THEN SinkWriteHeader(w, status)
    ELSE
      LET w0       == NewWriteCloser(w, "noop")
          deferred == Len(w0.wcs)     \* defer writer.Close() binds the noopCloser
          w1       == IF a.encodeGZIP
                      THEN NewWriteCloser(HeaderSet(w0, "Content-Encoding", "gzip"), "gzip")
                      ELSE w0
          writer   == Len(w1.wcs)
          w2       == HeaderSet(w1, "Content-Type", JSONContentType)
          m        == IF a.prettyJSON THEN MarshalIndent(v) ELSE Marshal(v)
          w3       == Record(w2, <<"json.Marshal", m.ok>>)
          w4       == IF ~m.ok THEN Err(a, w3, ctxErr, m.err, depth + 1)
                      ELSE write(a, w3, writer, status, m.b)
      IN  DeferredClose(w4, deferred)

\* func (a *API) Err(w, r, err)
Err(a, w, ctxErr, err, depth) ==
    IF depth > StackLimit THEN [w EXCEPT !.fault = StackOverflow]
    ELSE IF err.type = "nil" THEN w
    ELSE
      LET f == errFn(a, ctxErr, err)
      IN  IF f.err
          THEN LET w1 == Log(a.logger, w, "failed to write err to response writer")
               IN  IF w1.fault # NoFault THEN w1
                   ELSE Respond(a, w1, ctxErr, StatusInternalServerError,
                                ErrBody("internal error", "an unexpected error occurred"),
                                depth + 1)
          ELSE LET w1 == IF f.v.type = "ErrBody"
                         THEN HeaderSet(w, PlatformErrorCodeHeader, f.v.Code) ELSE w
               IN  Respond(a, w1, ctxErr, f.status, f.v, depth + 1)

\* func (a *API) Write(w, status, b)
Write(a, w, status, b) ==
    IF status = StatusNoContent THEN SinkWriteHeader(w, status)
    ELSE
      LET w0       == NewWriteCloser(w, "noop")
          deferred == Len(w0.wcs)
          w1       == IF a.encodeGZIP
                      THEN NewWriteCloser(HeaderSet(w0, "Content-Encoding", "gzip"), "gzip")
                      ELSE w0
          writer   == Len(w1.wcs)
      IN  DeferredClose(write(a, w1, writer, status, b), deferred)

(***************************************************************************)
(* Error response writer (error_handler.go)                                *)
(***************************************************************************)
\* func WriteErrorResponse(ctx, w, code, msg)
WriteErrorResponse(w, ctxErr, code, msg) ==
    LET w1 == HeaderSet(HeaderSet(w, PlatformErrorCodeHeader, code),
                        "Content-Type", JSONContentType)
        w2 == SinkWriteHeader(w1, ErrorCodeToStatusCode(ctxErr, code))
        b  == [kind |-> "json", indent |-> FALSE,
               val |-> [code |-> code, message |-> msg]]
    IN  SinkWrite(Record(w2, <<"json.Marshal", TRUE>>), b).w

GenericHandlerMessage == "An internal error has occurred - check server logs"

\* func (h ErrorHandler) HandleHTTPError(ctx, err, w); h.logger is the logger
\* NewErrorHandler was given
HandleHTTPError(h, w, ctxErr, err) ==
    IF err.type = "nil" THEN w
    ELSE LET code == ErrorCode(err)
         IN  IF err.type = "*errors.Error"
             THEN WriteErrorResponse(w, ctxErr, code, ErrorText(err))
             ELSE LET w1 == Log(h.logger, w, "internal error not returned to client: ")
                  IN  IF w1.fault # NoFault THEN w1
                      ELSE WriteErrorResponse(w1, ctxErr, code, GenericHandlerMessage)


(***************************************************************************)
(* One call per request, each on a fresh response sink                     *)
(***************************************************************************)
RespondStatuses == {StatusOK, StatusNoContent, StatusInternalServerError}
RawBytes == [kind |-> "raw", id |-> "payload"]
NoCall == [op |-> "none"]

API_Respond ==
    /\ call.op = "none"
    /\ \E status \in RespondStatuses, v \in ValueInputs, ctxErr \in CtxErrs,
          failAt \in FailAts :
          /\ call' = [op |-> "Respond", status |-> status, v |-> v, ctxErr |-> ctxErr]
          /\ out' = Respond(api, NewSink(failAt), ctxErr, status, v, 1)
    /\ UNCHANGED <<httpStatusCodeToError, ranged, query, srw, under, hist, cors, api>>

API_Write ==
    /\ call.op = "none"
    /\ \E status \in RespondStatuses, failAt \in FailAts :
          /\ call' = [op |-> "Write", status |-> status, b |-> RawBytes]
          /\ out' = Write(api, NewSink(failAt), status, RawBytes)
    /\ UNCHANGED <<httpStatusCodeToError, ranged, query, srw, under, hist, cors, api>>

API_Err ==
    /\ call.op = "none"
    /\ \E err \in ErrorInputs, ctxErr \in CtxErrs, failAt \in FailAts :
          /\ call' = [op |-> "Err", err |-> err, ctxErr |-> ctxErr]
          /\ out' = Err(api, NewSink(failAt), ctxErr, err, 1)
    /\ UNCHANGED <<httpStatusCodeToError, ranged, query, srw, under, hist, cors, api>>

EH_HandleHTTPError ==
    /\ call.op = "none"
    /\ \E logger \in BOOLEAN, err \in ErrorInputs, ctxErr \in CtxErrs,
          failAt \in FailAts :
          /\ call' = [op |-> "HandleHTTPError", logger |-> logger, err |-> err,
                      ctxErr |-> ctxErr]
          /\ out' = HandleHTTPError([logger |-> logger], NewSink(failAt), ctxErr, err)
    /\ UNCHANGED <<httpStatusCodeToError, ranged, query, srw, under, hist, cors, api>>

Call_WriteErrorResponse ==
    /\ call.op = "none"
    /\ \E code \in {ENotFound, EInternal, "teapot"}, msg \in {"", "no such bucket"},
          ctxErr \in CtxErrs, failAt \in FailAts :
          /\ call' = [op |-> "WriteErrorResponse", code |-> code, msg |-> msg,
                      ctxErr |-> ctxErr]
          /\ out' = WriteErrorResponse(NewSink(failAt), ctxErr, code, msg)
    /\ UNCHANGED <<httpStatusCodeToError, ranged, query, srw, under, hist, cors, api>>

InitAPI ==
    /\ api \in {NewAPI(opts) : opts \in OptionLists}
    /\ call = NoCall
    /\ out = NewSink(0)
    /\ httpStatusCodeToError = EmptyMap /\ ranged = {} /\ query = NoQuery
    /\ srw = Idle /\ under = Idle /\ hist = Idle /\ cors = Idle

NextAPI ==
    \/ API_Respond
    \/ API_Write
    \/ API_Err
    \/ EH_HandleHTTPError
    \/ Call_WriteErrorResponse

SpecAPI == InitAPI /\ [][NextAPI]_vars


(***************************************************************************)
(* Reading a response sink's events                                        *)
(***************************************************************************)
EventsOf(events, kind) == {i \in DOMAIN events : events[i][1] = kind}

\* the JSON documents handed to the sink, bare or inside gzip data
JSONBodies(events) ==
    UNION {LET b == events[i][2]
           IN  IF b.kind = "json" THEN {b}
               ELSE IF b.kind = "gzip.data" THEN {b.of[k] : k \in DOMAIN b.of}
               ELSE {} : i \in EventsOf(events, "Write")}

\* the error envelopes {code, message} among them
Envelopes(events) ==
    {b.val : b \in {d \in JSONBodies(events) :
                        d.kind = "json" /\ DOMAIN d.val = {"code", "message"}}}

GenericMessages == {GenericHandlerMessage, "an internal error has occurred"}

\* what a Respond call under the default formatter does on every path: one
\* WriteHeader; a successful json.Marshal before any WriteHeader or Write; the
\* WriteHeader before every Write
RespondOrdering ==
    /\ Len(WriteHeaders(out.events)) = 1
    /\ \A i \in EventsOf(out.events, "WriteHeader") \cup EventsOf(out.events, "Write") :
          \E j \in EventsOf(out.events, "json.Marshal") :
              j < i /\ out.events[j][2] = TRUE
    /\ \A i \in EventsOf(out.events, "Write") :
          \E j \in EventsOf(out.events, "WriteHeader") : j < i


(***************************************************************************)
(* C2 as stated. In every call to Respond with a status other than 204     *)
(* (default formatter), the value is marshaled before any status or body   *)
(* byte reaches the sink, the sink receives exactly one WriteHeader, which *)
(* precedes every body Write, and on marshal failure the caller's          *)
(* requested status is never written.                                      *)
(***************************************************************************)
C2_MarshalFirstCallerStatusNeverWritten ==
    (call.op = "Respond" /\ call.status # 204 /\ api.errFn = "default") =>
        /\ RespondOrdering
        /\ call.v = ChanValue =>
              \A i \in EventsOf(out.events, "WriteHeader") :
                  out.events[i][2] # call.status

(***************************************************************************)
(* C2 amended. As stated, except that on marshal failure the one status    *)
(* written is the one the default formatter gives the marshal error (500,  *)
(* or 408 / 499 under a context error), whatever status the caller         *)
(* requested; on success it is the caller's status.                        *)
(***************************************************************************)
C2_MarshalFirstOneStatus ==
    (call.op = "Respond" /\ call.status # 204 /\ api.errFn = "default") =>
        /\ RespondOrdering
        /\ call.v = ChanValue =>
              WriteHeaders(out.events) = <<ErrorCodeToStatusCode(call.ctxErr, EInternal)>>
        /\ call.v # ChanValue => WriteHeaders(out.events) = <<call.status>>

\* Respond(200, a channel) with gzip on: the marshal failed, Err answered 500
\* and the body went out after the status
C2_Witness ==
    /\ call.op = "Respond" /\ call.status = 200 /\ call.v = ChanValue
    /\ api.errFn = "default" /\ api.encodeGZIP
    /\ out.events[3] = <<"json.Marshal", FALSE>>
    /\ WriteHeaders(out.events) = <<500>>
    /\ Cardinality(EventsOf(out.events, "Write")) = 3
    /\ out.fault = NoFault

(***************************************************************************)
(* C4. For an error that is no *errors.Error, the body written carries a   *)
(* generic internal-error message and never the error's own text, with     *)
(* HandleHTTPError and with API.Err under the default formatter alike (so  *)
(* two such errors that differ in their text get the same body).           *)
(***************************************************************************)
C4_UnrecognizedErrorTextNotSent ==
    (/\ call.op = "HandleHTTPError" \/ (call.op = "Err" /\ api.errFn = "default")
     /\ call.err.type = "error") =>
        \A env \in Envelopes(out.events) : env.message \in GenericMessages

(***************************************************************************)
(* C5. Every error response written by WriteErrorResponse, HandleHTTPError *)
(* or API.Err (formatter success and formatter failure alike) carries the  *)
(* X-Platform-Error-Code header, set to the code of the envelope sent.     *)
(***************************************************************************)
C5_ErrorCodeHeaderOnEveryErrorResponse ==
    call.op \in {"WriteErrorResponse", "HandleHTTPError", "Err"} =>
        \A env \in Envelopes(out.events) :
            /\ PlatformErrorCodeHeader \in DOMAIN out.header
            /\ out.header[PlatformErrorCodeHeader] = env.code

(***************************************************************************)
(* C6. Every call to API.Err with a non-nil error ends having written      *)
(* exactly one response, for any configured formatter (here with a logger  *)
(* configured): the generic 500 envelope if the formatter fails; and the   *)
(* recursion Respond -> Err -> Respond always ends.                        *)
(***************************************************************************)
C6_ErrEndsWithOneResponse ==
    (call.op = "Err" /\ call.err.type # "nil" /\ api.logger) =>
        /\ out.fault = NoFault
        /\ Len(WriteHeaders(out.events)) = 1
        /\ api.errFn = "fails" =>
              /\ WriteHeaders(out.events) = <<500>>
              /\ Envelopes(out.events) \subseteq
                     {[code |-> "internal error", message |-> "an unexpected error occurred"]}

(***************************************************************************)
(* C7. An API built by NewAPI with zero options works on every operation:  *)
(* a failed body write or close, or a failed formatter, is logged and the  *)
(* operation returns normally, without a fault.                            *)
(***************************************************************************)
C7_ZeroOptionsNeverFaults ==
    (api.opts = <<>> /\ call.op \in {"Respond", "Write", "Err"}) =>
        out.fault = NoFault


\* Respond or Write went down its success path: a body was to be sent, the
\* marshal (if any) succeeded, every sink Write succeeded, nothing panicked
SuccessPath ==
    /\ call.op \in {"Respond", "Write"}
    /\ call.status # StatusNoContent
    /\ call.op = "Respond" => call.v # ChanValue
    /\ out.failAt = 0
    /\ out.fault = NoFault

(***************************************************************************)
(* C11. On the success path of Respond and of Write, the write-closer      *)
(* selected for the response (the gzip writer when gzip is enabled, the    *)
(* no-op closer otherwise) is closed twice, once explicitly after the body *)
(* write and once by the deferred Close, and neither close returns an      *)
(* error.                                                                  *)
(***************************************************************************)
C11_SelectedCloserClosedTwice ==
    SuccessPath =>
        LET selected == out.wcs[Len(out.wcs)]
        IN  /\ selected.kind = IF api.encodeGZIP THEN "gzip" ELSE "noop"
            /\ selected.closes = <<TRUE, TRUE>>

====
